---- MODULE Spec2Model ----
(***************************************************************************)
(* Fisher's exact test app (fisher_gui_st 1.2 and 1.205): a Streamlit      *)
(* script with a file-input mode and a manual-count mode.  Every widget    *)
(* interaction re-runs the script from the top; the results are displayed  *)
(* only by the run in which the button was pressed.                        *)
(*                                                                         *)
(* Numbers.  alpha is kept in thousandths (the slider's step), a p-value   *)
(* and an odds ratio as exact fractions [num, den], a defect rate as the   *)
(* fraction 100*fail/n (or NaN).                                           *)
(***************************************************************************)
EXTENDS Integers, Sequences, FiniteSets

VARIABLES version, mode, alpha, purpose,
          uploaded_file, col1, col2,
          name1, n1, f1, name2, n2, f2,
          graph_title, y_label,
          display, error, ref

vars == <<version, mode, alpha, purpose, uploaded_file, col1, col2,
          name1, n1, f1, name2, n2, f2, graph_title, y_label,
          display, error, ref>>

(* ------------------------------ bounds --------------------------------- *)
\* largest sample size / defect count typed into the manual widgets
MaxN == 4
\* largest number of rows of an uploaded file
MaxRows == 4
\* largest number of rows of a file uploaded under SpecSession
SessionRows == 1

(* --------------------------- widget domains ---------------------------- *)
Versions == {"1.2", "1.205"}
Modes == {"file", "manual"}

\* st.slider(0.001, 0.10, 0.05, step=0.001), in thousandths
AlphaMin == 1
AlphaMax == 100
AlphaDefault == 50
AlphaScale == 1000
\* the slider's ends and its default
AlphaValues == {AlphaMin, AlphaDefault, AlphaMax}

SeekEquivalence == "SeekEquivalence"
SeekImprovement == "SeekImprovement"
Purposes == {SeekEquivalence, SeekImprovement}

\* number_input(min_value=1) for N, number_input(min_value=0) for defects
MinN == 1
MinF == 0

DefaultName1 == "Group1"
DefaultName2 == "Group2"
Names1 == {DefaultName1, "Old"}
Names2 == {DefaultName2, "New"}

DefaultTitle == "Comparison of Two Groups"
DefaultYLabel == "Defect Rate (%)"
Titles == {DefaultTitle, "Title"}
YLabels == {DefaultYLabel, "Rate"}

(* ------------------------------ file data ------------------------------ *)
\* A cell of a column is <<>> (missing, NaN) or <<v>> for the number v.
NaN == <<>>
CellValues == {NaN, <<0>>, <<1>>, <<2>>}
\* the cells of a file as the page describes it: 0 = good, 1 = defect
BinaryCells == {NaN, <<0>>, <<1>>}
ColNames == {"A", "B"}

Rank(c) == IF c = NaN THEN 3 ELSE c[1]

\* The columns of a file with L rows.  dropna, sum and len do not look at
\* the order of the rows, so one ordering stands for each multiset of cells.
ColumnsOf(L, cells) ==
    { c \in [1..L -> cells] :
        \A i \in 1..L : \A j \in 1..L : i < j => Rank(c[i]) <= Rank(c[j]) }

\* pd.read_csv / pd.read_excel: a frame whose columns have one length
FramesUpTo(rows, cells) ==
    UNION { { [A |-> a, B |-> b] :
                a \in ColumnsOf(L, cells), b \in ColumnsOf(L, cells) }
            : L \in 0..rows }
Frames == FramesUpTo(MaxRows, CellValues)
SessionFrames == FramesUpTo(SessionRows, BinaryCells)

\* Series.dropna().astype(int)
RECURSIVE DropNa(_)
DropNa(col) ==
    IF col = <<>> THEN <<>>
    ELSE IF Head(col) = NaN THEN DropNa(Tail(col))
         ELSE <<Head(col)[1]>> \o DropNa(Tail(col))

\* Series.sum()
RECURSIVE Sum(_)
Sum(data) == IF data = <<>> THEN 0 ELSE Head(data) + Sum(Tail(data))

(* --------------------------- scipy fisher_exact ------------------------ *)
RECURSIVE Binom(_, _)
Binom(n, k) ==
    IF k < 0 \/ k > n THEN 0
    ELSE IF k = 0 THEN 1
    ELSE (Binom(n - 1, k - 1) * n) \div k

Max2(a, b) == IF a >= b THEN a ELSE b
Min2(a, b) == IF a <= b THEN a ELSE b

RECURSIVE SumOver(_, _, _)
\* sum of W[x] for x in lo..hi
SumOver(W, lo, hi) == IF lo > hi THEN 0 ELSE W[lo] + SumOver(W, lo + 1, hi)

\* hypergeometric weight of the table whose upper-left cell is x, with row
\* sums r1, r2 and first column sum c1 (the common divisor Binom(r1+r2, c1)
\* is left out)
Weight(x, r1, r2, c1) == Binom(r1, x) * Binom(r2, c1 - x)

\* faulty variant: the one-sided (lower tail) p-value
OneSidedP(t) ==
    LET r1 == t[1][1] + t[1][2]
        r2 == t[2][1] + t[2][2]
        c1 == t[1][1] + t[2][1]
        lo == Max2(0, c1 - r2)
        hi == Min2(r1, c1)
        W == [x \in lo..hi |-> Weight(x, r1, r2, c1)]
    IN  [num |-> SumOver(W, lo, t[1][1]), den |-> SumOver(W, lo, hi)]

\* two-sided p-value: the weights not above the observed one, over all
TwoSidedP(t) ==
    LET r1 == t[1][1] + t[1][2]
        r2 == t[2][1] + t[2][2]
        c1 == t[1][1] + t[2][1]
        lo == Max2(0, c1 - r2)
        hi == Min2(r1, c1)
        obs == Weight(t[1][1], r1, r2, c1)
        W == [x \in lo..hi |-> Weight(x, r1, r2, c1)]
        E == [x \in lo..hi |-> IF W[x] <= obs THEN W[x] ELSE 0]
    IN  [num |-> SumOver(E, lo, hi), den |-> SumOver(W, lo, hi)]

\* faulty variant: the ratio divided out by hand, which raises on a zero divisor
OddsRatioDiv(t) ==
    IF t[2][1] * t[1][2] # 0
    THEN [kind |-> "num", num |-> t[1][1] * t[2][2], den |-> t[2][1] * t[1][2]]
    ELSE [kind |-> "ZeroDivisionError", num |-> 0, den |-> 0]

\* sample odds ratio; inf when a factor of the denominator is 0
OddsRatio(t) ==
    IF t[2][1] > 0 /\ t[1][2] > 0
    THEN [kind |-> "num", num |-> t[1][1] * t[2][2], den |-> t[2][1] * t[1][2]]
    ELSE [kind |-> "inf", num |-> 0, den |-> 0]

HasNegative(t) == \E i \in 1..2 : \E j \in 1..2 : t[i][j] < 0

ZeroMargin(t) ==
    \/ t[1][1] + t[1][2] = 0
    \/ t[2][1] + t[2][2] = 0
    \/ t[1][1] + t[2][1] = 0
    \/ t[1][2] + t[2][2] = 0

\* fisher_exact(table): ValueError on a negative entry, (nan, 1.0) on a zero
\* margin, otherwise the odds ratio and the two-sided p-value
fisher_exact(t) ==
    IF HasNegative(t)
    THEN [raised |-> "ValueError",
          oddsratio |-> [kind |-> "nan", num |-> 0, den |-> 0],
          p_val |-> [num |-> 0, den |-> 1]]
    ELSE IF ZeroMargin(t)
    THEN [raised |-> "none",
          oddsratio |-> [kind |-> "nan", num |-> 0, den |-> 0],
          p_val |-> [num |-> 1, den |-> 1]]
    ELSE [raised |-> "none",
          oddsratio |-> OddsRatio(t),
          p_val |-> TwoSidedP(t)]


(* ------------------------- comparisons and formats --------------------- *)
\* Python's  p_val < alpha  on the exact values
Lt(p, a) == p.num * AlphaScale < a * p.den

\* faulty variant: p_val > alpha where the script has p_val >= alpha
Gt(p, a) == p.num * AlphaScale > a * p.den

\* Python's  p_val >= alpha
Geq(p, a) == p.num * AlphaScale >= a * p.den

\* num/den in units of 1/scale, rounded to the nearest unit (f"{x:.2f}" ...)
Rounded(num, den, scale) == (2 * num * scale + den) \div (2 * den)

\* f1 / n1 * 100 on Python ints (n1 >= 1 by the widget's min_value)
RateManual(fail, n) == [kind |-> "num", num |-> fail * 100, den |-> n]

\* fail1 / len(data1) * 100 on numpy integers: 0/0 is nan, not an exception
RateFile(fail, n) ==
    IF n = 0 THEN [kind |-> "nan", num |-> 0, den |-> 0]
    ELSE [kind |-> "num", num |-> fail * 100, den |-> n]

\* f"{rate:.2f}" in hundredths of a percent
Fmt2(rate) ==
    IF rate.kind = "nan" THEN [kind |-> "nan", value |-> 0]
    ELSE [kind |-> "num", value |-> Rounded(rate.num, rate.den, 100)]

\* f"{oddsratio:.3f}" in thousandths
Fmt3(o) ==
    IF o.kind = "num" THEN [kind |-> "num", value |-> Rounded(o.num, o.den, 1000)]
    ELSE [kind |-> o.kind, value |-> 0]

\* f"{p_val:.4f}" in ten-thousandths
Fmt4(p) == Rounded(p.num, p.den, 10000)

(* ---------------------------- comment generation ----------------------- *)
SignificantlyDifferent == "SignificantlyDifferent"
NoSignificantDifference == "NoSignificantDifference"

\* the four notes: how the sentence opens ("no significant difference was
\* seen, so" / "a significant difference was confirmed, so") and its conclusion
EquivalenceAchieved ==
    [opening |-> NoSignificantDifference, conclusion |-> "EquivalenceAchieved"]
EffectInsufficient ==
    [opening |-> SignificantlyDifferent, conclusion |-> "EffectInsufficient"]
ImprovementConfirmed ==
    [opening |-> SignificantlyDifferent, conclusion |-> "ImprovementConfirmed"]
ImprovementNotConfirmed ==
    [opening |-> NoSignificantDifference, conclusion |-> "ImprovementNotConfirmed"]

\* main_result: the comparative sentence
MainResult(p, a, g1, g2, rate2) ==
    [wording |-> IF Lt(p, a) THEN SignificantlyDifferent
                 ELSE NoSignificantDifference,
     group2 |-> g2, rate2 |-> Fmt2(rate2), group1 |-> g1]

\* significance: the p-value against alpha
Significance(p, a) ==
    IF Lt(p, a)
    THEN [p_val |-> Fmt4(p), op |-> "<", alpha |-> a,
          verdict |-> SignificantlyDifferent]
    ELSE [p_val |-> Fmt4(p), op |-> ">=", alpha |-> a,
          verdict |-> NoSignificantDifference]

\* faulty variant: the second branch tests p_val >= alpha like the first one
NoteCopied(p, a, purp) ==
    IF purp = SeekEquivalence
    THEN (IF Geq(p, a) THEN EquivalenceAchieved ELSE EffectInsufficient)
    ELSE (IF Geq(p, a) THEN ImprovementConfirmed ELSE ImprovementNotConfirmed)

\* note: the interpretive note
Note(p, a, purp) ==
    IF purp = SeekEquivalence
    THEN (IF Geq(p, a) THEN EquivalenceAchieved ELSE EffectInsufficient)
    ELSE (IF Lt(p, a) THEN ImprovementConfirmed ELSE ImprovementNotConfirmed)

\* result_text = f"{main_result}\n{significance}\n\n{note}"
ResultText(p, a, purp, g1, g2, rate2) ==
    [main_result |-> MainResult(p, a, g1, g2, rate2),
     significance |-> Significance(p, a),
     note |-> Note(p, a, purp)]

(* ------------------------------- graph --------------------------------- *)
\* ax.set_title / ax.set_ylabel: fixed texts in 1.2, session_state in 1.205
Graph ==
    IF version = "1.205" THEN [title |-> graph_title, ylabel |-> y_label]
    ELSE [title |-> DefaultTitle, ylabel |-> DefaultYLabel]

(* --------------------------- table construction ------------------------ *)
\* manual mode: ok = n - f; table = [[f1, ok1], [f2, ok2]]
ManualTable(a1, b1, a2, b2) == <<<<b1, a1 - b1>>, <<b2, a2 - b2>>>>

\* faulty variant: ok = len(data)
FileRowLen(data) == <<Sum(data), Len(data)>>

\* file mode: fail = data.sum(), ok = len(data) - data.sum()
FileRow(data) == <<Sum(data), Len(data) - Sum(data)>>
FileTable(data1, data2) == <<FileRow(data1), FileRow(data2)>>

\* faulty variant: the second result line names the graph title kept in session_state
ShownTitled(t, r, g1, g2, fail1, cnt1, fail2, cnt2, rate1, rate2) ==
    [mode |-> mode,
     table |-> t,
     line1 |-> [group |-> g1, fail |-> fail1, n |-> cnt1, rate |-> Fmt2(rate1)],
     line2 |-> [group |-> graph_title, fail |-> fail2, n |-> cnt2,
                rate |-> Fmt2(rate2)],
     rate1 |-> rate1,
     rate2 |-> rate2,
     oddsratio |-> r.oddsratio,
     odds_text |-> Fmt3(r.oddsratio),
     p_val |-> r.p_val,
     result_text |-> ResultText(r.p_val, alpha, purpose, g1, g2, rate2),
     graph |-> Graph]

\* what the run of the script in which the button was pressed shows
Shown(t, r, g1, g2, fail1, cnt1, fail2, cnt2, rate1, rate2) ==
    [mode |-> mode,
     table |-> t,
     line1 |-> [group |-> g1, fail |-> fail1, n |-> cnt1, rate |-> Fmt2(rate1)],
     line2 |-> [group |-> g2, fail |-> fail2, n |-> cnt2, rate |-> Fmt2(rate2)],
     rate1 |-> rate1,
     rate2 |-> rate2,
     oddsratio |-> r.oddsratio,
     odds_text |-> Fmt3(r.oddsratio),
     p_val |-> r.p_val,
     result_text |-> ResultText(r.p_val, alpha, purpose, g1, g2, rate2),
     graph |-> Graph]


(* ------------------------------ the script ----------------------------- *)
NoFile == <<>>
Nothing == <<>>

\* the widgets that exist only in one mode, as Streamlit creates them.  The
\* number inputs start at their min_value here: their defaults (100, 5, 3)
\* lie beyond MaxN, and every value up to MaxN is one edit away.
FreshWidgets ==
    /\ uploaded_file' = NoFile
    /\ col1' = "A"
    /\ col2' = "B"
    /\ name1' = DefaultName1
    /\ name2' = DefaultName2
    /\ n1' = MinN
    /\ n2' = MinN
    /\ f1' = MinF
    /\ f2' = MinF

Init ==
    /\ version \in Versions
    /\ mode = "file"
    /\ alpha = AlphaDefault
    /\ purpose = SeekEquivalence
    /\ uploaded_file = NoFile
    /\ col1 = "A"
    /\ col2 = "B"
    /\ name1 = DefaultName1
    /\ name2 = DefaultName2
    /\ n1 = MinN
    /\ n2 = MinN
    /\ f1 = MinF
    /\ f2 = MinF
    /\ graph_title = DefaultTitle
    /\ y_label = DefaultYLabel
    /\ display = Nothing
    /\ error = "none"
    /\ ref = Nothing

\* a re-run of the script in which no button is pressed: no results shown
Rerun ==
    /\ display' = Nothing
    /\ error' = "none"
    /\ UNCHANGED <<version, ref>>

FileVars == <<uploaded_file, col1, col2>>
ManualVars == <<name1, n1, f1, name2, n2, f2>>
TopVars == <<mode, alpha, purpose>>
GraphVars == <<graph_title, y_label>>

\* st.radio: the other mode's widgets are not created and lose their values
SetMode(m) ==
    /\ m # mode
    /\ mode' = m
    /\ FreshWidgets
    /\ Rerun
    /\ UNCHANGED <<alpha, purpose, GraphVars>>

SetAlpha(a) ==
    /\ a # alpha
    /\ alpha' = a
    /\ Rerun
    /\ UNCHANGED <<mode, purpose, FileVars, ManualVars, GraphVars>>

SetPurpose(pu) ==
    /\ pu # purpose
    /\ purpose' = pu
    /\ Rerun
    /\ UNCHANGED <<mode, alpha, FileVars, ManualVars, GraphVars>>

\* st.file_uploader receives a file, one of frames
Upload(frames) ==
    /\ mode = "file"
    /\ uploaded_file = NoFile
    /\ \E frame \in frames : uploaded_file' = <<frame>>
    /\ Rerun
    /\ UNCHANGED <<TopVars, col1, col2, ManualVars, GraphVars>>

\* the file is removed: the column selectors are not created any more
RemoveFile ==
    /\ mode = "file"
    /\ uploaded_file # NoFile
    /\ uploaded_file' = NoFile
    /\ col1' = "A"
    /\ col2' = "B"
    /\ Rerun
    /\ UNCHANGED <<TopVars, ManualVars, GraphVars>>

\* col1 = st.selectbox
SelectCol1(c) ==
    /\ mode = "file"
    /\ uploaded_file # NoFile
    /\ c # col1
    /\ col1' = c
    /\ Rerun
    /\ UNCHANGED <<TopVars, uploaded_file, col2, ManualVars, GraphVars>>

\* col2 = st.selectbox
SelectCol2(c) ==
    /\ mode = "file"
    /\ uploaded_file # NoFile
    /\ c # col2
    /\ col2' = c
    /\ Rerun
    /\ UNCHANGED <<TopVars, uploaded_file, col1, ManualVars, GraphVars>>

\* name1 = st.text_input
SetName1(s) ==
    /\ mode = "manual"
    /\ s # name1
    /\ name1' = s
    /\ Rerun
    /\ UNCHANGED <<TopVars, FileVars, n1, f1, name2, n2, f2, GraphVars>>

\* name2 = st.text_input
SetName2(s) ==
    /\ mode = "manual"
    /\ s # name2
    /\ name2' = s
    /\ Rerun
    /\ UNCHANGED <<TopVars, FileVars, name1, n1, f1, n2, f2, GraphVars>>

SetN1(v) ==
    /\ mode = "manual"
    /\ v # n1
    /\ n1' = v
    /\ Rerun
    /\ UNCHANGED <<TopVars, FileVars, name1, f1, name2, n2, f2, GraphVars>>

SetF1(v) ==
    /\ mode = "manual"
    /\ v # f1
    /\ f1' = v
    /\ Rerun
    /\ UNCHANGED <<TopVars, FileVars, name1, n1, name2, n2, f2, GraphVars>>

SetN2(v) ==
    /\ mode = "manual"
    /\ v # n2
    /\ n2' = v
    /\ Rerun
    /\ UNCHANGED <<TopVars, FileVars, name1, n1, f1, name2, f2, GraphVars>>

SetF2(v) ==
    /\ mode = "manual"
    /\ v # f2
    /\ f2' = v
    /\ Rerun
    /\ UNCHANGED <<TopVars, FileVars, name1, n1, f1, name2, n2, GraphVars>>

\* the graph settings of 1.205 exist where the run button exists
GraphWidgets ==
    /\ version = "1.205"
    /\ mode = "file" => uploaded_file # NoFile

EditGraphTitle(t) ==
    /\ GraphWidgets
    /\ t # graph_title
    /\ graph_title' = t
    /\ Rerun
    /\ UNCHANGED <<TopVars, FileVars, ManualVars, y_label>>

EditYLabel(t) ==
    /\ GraphWidgets
    /\ t # y_label
    /\ y_label' = t
    /\ Rerun
    /\ UNCHANGED <<TopVars, FileVars, ManualVars, graph_title>>

\* faulty variant: the results are written although fisher_exact raised
OutcomeSwallow(t, r, g1, g2, fail1, cnt1, fail2, cnt2, rate1, rate2) ==
    /\ display' = <<Shown(t, r, g1, g2, fail1, cnt1, fail2, cnt2, rate1, rate2)>>
    /\ error' = r.raised

\* what a pressed button leaves on the page: the results, or the exception
\* fisher_exact raised (nothing of the results is written before it)
Outcome(t, r, g1, g2, fail1, cnt1, fail2, cnt2, rate1, rate2) ==
    IF r.raised # "none"
    THEN /\ display' = Nothing
         /\ error' = r.raised
    ELSE /\ display' = <<Shown(t, r, g1, g2, fail1, cnt1, fail2, cnt2, rate1, rate2)>>
         /\ error' = "none"

\* the selected column, cleaned: df[col].dropna().astype(int)
Data(c) == DropNa(uploaded_file[1][c])

\* if st.button(file input)
RunFilePage ==
    /\ mode = "file"
    /\ uploaded_file # NoFile
    /\ LET data1 == Data(col1)
           data2 == Data(col2)
           table == FileTable(data1, data2)
           r == fisher_exact(table)
       IN Outcome(table, r, col1, col2,
                  table[1][1], Len(data1), table[2][1], Len(data2),
                  RateFile(table[1][1], Len(data1)),
                  RateFile(table[2][1], Len(data2)))
    /\ UNCHANGED <<version, TopVars, FileVars, ManualVars, GraphVars>>

\* if st.button(manual input)
RunManualPage ==
    /\ mode = "manual"
    /\ LET table == ManualTable(n1, f1, n2, f2)
           r == fisher_exact(table)
       IN Outcome(table, r, name1, name2, f1, n1, f2, n2,
                  RateManual(f1, n1), RateManual(f2, n2))
    /\ UNCHANGED <<version, TopVars, FileVars, ManualVars, GraphVars>>

RunFile == RunFilePage /\ UNCHANGED ref
RunManual == RunManualPage /\ UNCHANGED ref

\* The statistical core: modes, alpha, purpose, files and counts, with the
\* first group's name and column selector.  The second group's name and
\* selector and the graph settings stay as created.
Next ==
    \/ \E m \in Modes : SetMode(m)
    \/ \E a \in AlphaValues : SetAlpha(a)
    \/ \E pu \in Purposes : SetPurpose(pu)
    \/ Upload(Frames)
    \/ RemoveFile
    \/ \E c \in ColNames : SelectCol1(c)
    \/ \E s \in Names1 : SetName1(s)
    \/ \E v \in MinN..MaxN : SetN1(v)
    \/ \E v \in MinF..MaxN : SetF1(v)
    \/ \E v \in MinN..MaxN : SetN2(v)
    \/ \E v \in MinF..MaxN : SetF2(v)
    \/ RunFile
    \/ RunManual

Spec == Init /\ [][Next]_vars

(* ------------------------ runs compared over time ---------------------- *)
\* everything a run reads from the widgets
Inputs ==
    [mode |-> mode, alpha |-> alpha, purpose |-> purpose,
     file |-> uploaded_file, col1 |-> col1, col2 |-> col2,
     name1 |-> name1, n1 |-> n1, f1 |-> f1,
     name2 |-> name2, n2 |-> n2, f2 |-> f2]

\* the table, odds ratio, p-value, defect rates and comment of a display
CoreOf(d) ==
    [table |-> d.table, line1 |-> d.line1, line2 |-> d.line2,
     rate1 |-> d.rate1, rate2 |-> d.rate2,
     oddsratio |-> d.oddsratio, odds_text |-> d.odds_text,
     p_val |-> d.p_val, result_text |-> d.result_text]

Results ==
    [error |-> error,
     core |-> IF display = Nothing THEN Nothing ELSE <<CoreOf(display[1])>>]

\* a run has left its outcome on the page
Ran == display # Nothing \/ error # "none"

\* history: one earlier run (its inputs, its results and the graph title it
\* was drawn with), kept or replaced at every run
Remember ==
    ref' \in {ref, <<[inputs |-> Inputs, results |-> Results',
                      title |-> Graph.title]>>}

RunFileS == RunFilePage /\ Remember
RunManualS == RunManualPage /\ Remember

\* Version 1.205 with its graph settings (session_state), the second
\* group's name, column selector and counts, small 0/1 files, and the
\* history of runs.  alpha, purpose and the first group stay as created.
NextSession ==
    \/ \E m \in Modes : SetMode(m)
    \/ Upload(SessionFrames)
    \/ RemoveFile
    \/ \E c \in ColNames : SelectCol2(c)
    \/ \E s \in Names2 : SetName2(s)
    \/ \E v \in MinN..MaxN : SetN2(v)
    \/ \E v \in MinF..MaxN : SetF2(v)
    \/ \E t \in Titles : EditGraphTitle(t)
    \/ \E t \in YLabels : EditYLabel(t)
    \/ RunFileS
    \/ RunManualS

InitSession == Init /\ version = "1.205"

SpecSession == InitSession /\ [][NextSession]_vars


(* ------------------------------- claims -------------------------------- *)
\* number of entries of data equal to v
CountOf(data, v) == Cardinality({i \in 1..Len(data) : data[i] = v})

IsBinary(data) == \A i \in 1..Len(data) : data[i] \in {0, 1}

FileRan == Ran /\ mode = "file" /\ uploaded_file # NoFile
ManualRan == Ran /\ mode = "manual"

\* is_significant of the run on the page
IsSignificant == display[1].p_val.num * AlphaScale < alpha * display[1].p_val.den

\* the four-row table of (intent, is_significant)
ConclusionKind(purp, sig) ==
    CASE purp = SeekEquivalence /\ ~sig -> "EquivalenceAchieved"
      [] purp = SeekEquivalence /\ sig -> "EffectInsufficient"
      [] purp = SeekImprovement /\ sig -> "ImprovementConfirmed"
      [] purp = SeekImprovement /\ ~sig -> "ImprovementNotConfirmed"

\* C1: whenever a comment is on the page, in either mode and version, its
\* note is the one the four-row table gives for (intent, is_significant),
\* and it is one of the four notes.
C1_NoteByTable ==
    display # Nothing =>
        /\ display[1].result_text.note.conclusion
             = ConclusionKind(purpose, IsSignificant)
        /\ display[1].result_text.note \in
             {EquivalenceAchieved, EffectInsufficient,
              ImprovementConfirmed, ImprovementNotConfirmed}

\* C1 witness: a file-mode run of 1.205 seeking equivalence whose difference
\* is significant, so the note is "effect insufficient"
C1_Witness ==
    /\ display # Nothing
    /\ mode = "file"
    /\ version = "1.205"
    /\ purpose = SeekEquivalence
    /\ IsSignificant
    /\ display[1].result_text.note = EffectInsufficient

\* C2: in manual mode a run with defect_count > sample_size in group 1 or
\* group 2 ends in the exception and shows no result.
C2_InvalidCountRaises ==
    (ManualRan /\ (f1 > n1 \/ f2 > n2)) =>
        /\ error # "none"
        /\ display = Nothing

\* C2 witness: a manual run with f2 > n2 (and a valid group 1) has raised
C2_Witness ==
    /\ ManualRan
    /\ f1 <= n1
    /\ f2 > n2
    /\ error = "ValueError"

\* C3: in file mode a run over a selected column that is empty after
\* cleaning ends in an error and renders no verdict.
C3_EmptyGroupRaises ==
    (FileRan /\ (Data(col1) = <<>> \/ Data(col2) = <<>>)) =>
        /\ error # "none"
        /\ display = Nothing

\* C4: a run whose table has a zero margin ends in an error and renders no
\* verdict.
C4_DegenerateTableRaises ==
    display # Nothing => ~ZeroMargin(display[1].table)

\* C5: in every comment the comparative sentence, the significance line and
\* the opening of the note all say "significant" exactly when p_val < alpha.
C5_PartsAgree ==
    display # Nothing =>
        LET rt == display[1].result_text IN
        /\ rt.main_result.wording = SignificantlyDifferent <=> IsSignificant
        /\ rt.main_result.wording = NoSignificantDifference <=> ~IsSignificant
        /\ rt.significance.op = "<" <=> IsSignificant
        /\ rt.significance.op = ">=" <=> ~IsSignificant
        /\ rt.significance.verdict = rt.main_result.wording
        /\ rt.note.opening = rt.main_result.wording

\* C5 witness: a comment for a p-value equal to alpha (not significant)
C5_Witness ==
    /\ display # Nothing
    /\ display[1].p_val.num * AlphaScale = alpha * display[1].p_val.den
    /\ display[1].result_text.significance.op = ">="
    /\ display[1].result_text.note.opening = NoSignificantDifference

\* C6: a file-mode run over cleaned binary columns of length n >= 1 with d
\* ones hands the test the rows [d, n - d] that manual mode builds from
\* (sample_size = n, defect_count = d), and reports the same defect rates.
C6_RoundTrip ==
    (FileRan /\ IsBinary(Data(col1)) /\ IsBinary(Data(col2))
            /\ Data(col1) # <<>> /\ Data(col2) # <<>>) =>
        LET na == Len(Data(col1))
            da == CountOf(Data(col1), 1)
            nb == Len(Data(col2))
            db == CountOf(Data(col2), 1)
        IN /\ display # Nothing
           /\ display[1].table = ManualTable(na, da, nb, db)
           /\ display[1].rate1 = RateManual(da, na)
           /\ display[1].rate2 = RateManual(db, nb)

\* C6 witness: a file-mode run over binary columns with ones and zeros
C6_Witness ==
    /\ FileRan
    /\ IsBinary(Data(col1))
    /\ IsBinary(Data(col2))
    /\ CountOf(Data(col1), 1) >= 2
    /\ CountOf(Data(col1), 0) >= 1
    /\ CountOf(Data(col2), 1) >= 1
    /\ display # Nothing

SwapRows(t) == <<t[2], t[1]>>

\* C7: the p-value of every run lies in [0,1] and equals the p-value of the
\* table with the two groups exchanged; so do is_significant and the note.
C7_SwapSymmetric ==
    display # Nothing =>
        LET pv == display[1].p_val
            sw == fisher_exact(SwapRows(display[1].table))
            q == sw.p_val
        IN /\ pv.den > 0
           /\ 0 <= pv.num
           /\ pv.num <= pv.den
           /\ sw.raised = "none"
           /\ pv.num * q.den = q.num * pv.den
           /\ Lt(pv, alpha) <=> Lt(q, alpha)
           /\ display[1].result_text.note = Note(q, alpha, purpose)

\* C7 witness: a significant run over two groups of different sizes
C7_Witness ==
    /\ display # Nothing
    /\ display[1].table[1][1] + display[1].table[1][2]
         # display[1].table[2][1] + display[1].table[2][2]
    /\ display[1].table[1][1] # display[1].table[2][1]
    /\ IsSignificant

\* C8: a run with the inputs of a remembered earlier run has its results
\* (table, odds ratio, p-value, rates, comment, or the exception), whatever
\* was run, switched or typed in between.
C8_EqualInputsEqualResults ==
    (Ran /\ ref # Nothing /\ ref[1].inputs = Inputs) =>
        ref[1].results = Results

\* C8 witness: the inputs of the remembered run, drawn under the default
\* title, are run again after the graph title and the Y label were edited
C8_Witness ==
    /\ display # Nothing
    /\ ref # Nothing
    /\ ref[1].inputs = Inputs
    /\ ref[1].results = Results
    /\ ref[1].title = DefaultTitle
    /\ display[1].graph.title # DefaultTitle
    /\ display[1].graph.ylabel # DefaultYLabel
    /\ display[1].table[2][1] >= 1

\* the table of the counts entered (manual) or counted (binary file columns)
CountedTable ==
    IF mode = "manual"
    THEN <<<<f1, n1 - f1>>, <<f2, n2 - f2>>>>
    ELSE <<<<CountOf(Data(col1), 1), CountOf(Data(col1), 0)>>,
           <<CountOf(Data(col2), 1), CountOf(Data(col2), 0)>>>>

HasZeroCell(t) == \E i \in 1..2 : \E j \in 1..2 : t[i][j] = 0

ValidRun ==
    \/ ManualRan /\ f1 <= n1 /\ f2 <= n2
    \/ FileRan /\ IsBinary(Data(col1)) /\ IsBinary(Data(col2))

\* C9: a run over a valid table with a zero cell and no zero margin does not
\* raise: it renders a verdict with a p-value in [0,1], and the odds ratio is
\* infinite when good1 or defects2 is zero.
C9_ZeroCellNoRaise ==
    (ValidRun /\ HasZeroCell(CountedTable) /\ ~ZeroMargin(CountedTable)) =>
        /\ error = "none"
        /\ display # Nothing
        /\ display[1].table = CountedTable
        /\ display[1].p_val.den > 0
        /\ 0 <= display[1].p_val.num
        /\ display[1].p_val.num <= display[1].p_val.den
        /\ display[1].oddsratio.kind \in {"num", "inf"}
        /\ (CountedTable[1][2] = 0 \/ CountedTable[2][1] = 0)
             <=> display[1].oddsratio.kind = "inf"

\* C9 witness: the smallest table with a zero divisor of the odds ratio,
\* group1 = (1, 1) and group2 = (1, 0)
C9_Witness ==
    /\ ManualRan
    /\ CountedTable = <<<<1, 0>>, <<0, 1>>>>
    /\ display # Nothing
    /\ display[1].oddsratio.kind = "inf"
    /\ display[1].odds_text.kind = "inf"

\* C10: every table a verdict is rendered for has cells >= 0, rows summing
\* to the sample sizes and, in file mode, defects = the number of entries
\* equal to 1 and good = the number of entries equal to 0.
C10_TrueContingencyTable ==
    display # Nothing =>
        LET t == display[1].table IN
        /\ \A i \in 1..2 : \A j \in 1..2 : t[i][j] >= 0
        /\ t[1][1] + t[1][2] = display[1].line1.n
        /\ t[2][1] + t[2][2] = display[1].line2.n
        /\ mode = "file" =>
             /\ t[1][1] = CountOf(Data(col1), 1)
             /\ t[1][2] = CountOf(Data(col1), 0)
             /\ t[2][1] = CountOf(Data(col2), 1)
             /\ t[2][2] = CountOf(Data(col2), 0)

====
